---- MODULE Spec2Model ----
(***************************************************************************)
(* The constraint propagation engine of the Kropki Sudoku solver:          *)
(* prop_BT, prop_FC, prop_AC3 and is_value_consistent of propagators.py,   *)
(* over the Variable / Constraint / CSP store they are written against.    *)
(***************************************************************************)
EXTENDS Integers, Sequences, FiniteSets, TLC

\* ------------------------------------------------------------------ bounds
NVars == 3
MaxVal == 2
MaxCons == 2
MaxDim == 9

Vars == 1..NVars
Val == 1..MaxVal
None == 0

VARIABLES cons, dom, asg, pc, call, stack

vars == <<cons, dom, asg, pc, call, stack>>

\* ------------------------------------------------------- satisfying tuples
\* cspmodel.py: the three tables kropki_model builds, for dim = MaxVal.
satisfying_tuples_difference_constraints(dim) ==
    {<<i, j>> : i \in 1..dim, j \in 1..dim} \ {<<i, i>> : i \in 1..dim}

\* Variant of satisfying_tuples_white_dots: only the descending pairs.
white_dots_one_direction(dim) == {<<i + 1, i>> : i \in 1..(dim - 1)}

satisfying_tuples_white_dots(dim) ==
    UNION {{<<i, i + 1>>, <<i + 1, i>>} : i \in 1..(dim - 1)}

\* Variant of satisfying_tuples_black_dots: the doubled value stays below dim.
black_dots_below_dim(dim) ==
    UNION {{<<i, 2 * i>>, <<i * 2, i>>} : i \in {k \in 1..(dim \div 2) : 2 * k < dim}}

satisfying_tuples_black_dots(dim) ==
    UNION {{<<i, 2 * i>>, <<i * 2, i>>} : i \in {k \in 1..(dim \div 2) : 2 * k <= dim}}

\* A table that is not symmetric (the Constraint class takes any tuple list).
LessTuples(dim) == {t \in (1..dim) \X (1..dim) : t[1] < t[2]}

Tables ==
    { satisfying_tuples_difference_constraints(MaxVal),
      satisfying_tuples_white_dots(MaxVal),
      satisfying_tuples_black_dots(MaxVal),
      LessTuples(MaxVal) }

\* Binary constraints: an ordered scope of two different variables and a table.
ConsUniverse ==
    {c \in [scope : Vars \X Vars, sat : Tables] : c.scope[1] # c.scope[2]}

\* ------------------------------------------------- Variable / Constraint / CSP
\* Variable.cur_domain(): the current domain, in the order of the initial domain
\* (create_initial_domain gives 1..dim ascending).
RECURSIVE SortedSeq(_)
SortedSeq(S) ==
    IF S = {} THEN <<>>
    ELSE LET m == CHOOSE m \in S : \A y \in S : m <= y
         IN <<m>> \o SortedSeq(S \ {m})

cur_domain(d, x) == SortedSeq(d[x])

cur_domain_size(d, x) == Cardinality(d[x])

prune_value(d, x, v) == [d EXCEPT ![x] = @ \ {v}]

restore_value(d, x, v) == [d EXCEPT ![x] = @ \cup {v}]

is_assigned(a, x) == a[x] # None

get_assigned_value(a, x) == a[x]

get_scope(c) == c.scope

check(c, vals) == vals \in c.sat

InScope(c, x) == \E i \in 1..Len(c.scope) : c.scope[i] = x

get_unassigned_vars(a, c) == SelectSeq(c.scope, LAMBDA x : ~is_assigned(a, x))

get_num_unassigned_vars(a, c) == Len(get_unassigned_vars(a, c))

\* Constraints are objects: the registry's lists hold references, modelled as
\* the positions 1..Len(cs) in the registry's constraint list cs.
get_all_cons(cs) == [k \in 1..Len(cs) |-> k]

get_cons_with_var(cs, x) == SelectSeq(get_all_cons(cs), LAMBDA k : InScope(cs[k], x))

get_all_vars == [i \in 1..NVars |-> i]

\* Variant of BTVals: the values in reverse scope order.
BTValsReversed(a, c) ==
    [i \in 1..Len(c.scope) |-> get_assigned_value(a, c.scope[Len(c.scope) + 1 - i])]

\* ------------------------------------------------------------------ prop_BT
\* The assigned values of a constraint's scope, in scope order (lines 198-203).
BTVals(a, c) == [i \in 1..Len(c.scope) |-> get_assigned_value(a, c.scope[i])]

prop_BT(cs, a, d, last) ==
    IF last = None
    THEN [ok |-> TRUE, dom |-> d, asg |-> a, prunings |-> <<>>]
    ELSE [ok |-> \A i \in 1..Len(get_cons_with_var(cs, last)) :
                    LET c == cs[get_cons_with_var(cs, last)[i]]
                    IN get_num_unassigned_vars(a, c) = 0 => check(c, BTVals(a, c)),
          dom |-> d,
          asg |-> a,
          prunings |-> <<>>]

\* ------------------------------------------------------------------ prop_FC
\* [var.get_assigned_value() for var in constraint.get_scope() if var.is_assigned()]
AssignedValues(a, c) ==
    LET s == SelectSeq(c.scope, LAMBDA x : is_assigned(a, x))
    IN [i \in 1..Len(s) |-> get_assigned_value(a, s[i])]

\* The list handed to constraint.check for a candidate value (lines 43-44).
FCTuple(a, c, value) == <<value>> \o AssignedValues(a, c)

\* Variant of FCValues: the pruning that empties the domain is not recorded.
RECURSIVE FCValuesUnlogged(_, _, _, _, _, _)
FCValuesUnlogged(c, u, vals, a, d, pr) ==
    IF vals = <<>> THEN [dom |-> d, prunings |-> pr]
    ELSE LET value == Head(vals)
         IN IF ~check(c, FCTuple(a, c, value))
            THEN FCValuesUnlogged(c, u, Tail(vals), a, prune_value(d, u, value),
                                  IF cur_domain_size(d, u) = 1 THEN pr
                                  ELSE Append(pr, <<u, value>>))
            ELSE FCValuesUnlogged(c, u, Tail(vals), a, d, pr)

\* for value in unassigned_var.cur_domain(): ... (lines 42-46)
RECURSIVE FCValues(_, _, _, _, _, _)
FCValues(c, u, vals, a, d, pr) ==
    IF vals = <<>> THEN [dom |-> d, prunings |-> pr]
    ELSE LET value == Head(vals)
         IN IF ~check(c, FCTuple(a, c, value))
            THEN FCValues(c, u, Tail(vals), a, prune_value(d, u, value),
                          Append(pr, <<u, value>>))
            ELSE FCValues(c, u, Tail(vals), a, d, pr)

\* for constraint in relevant_constraints: ... (lines 39-46)
RECURSIVE FCCons(_, _, _, _, _)
FCCons(cs, rel, a, d, pr) ==
    IF rel = <<>> THEN [dom |-> d, prunings |-> pr]
    ELSE LET c == cs[Head(rel)]
         IN IF get_num_unassigned_vars(a, c) = 1
            THEN LET u == get_unassigned_vars(a, c)[1]
                     r == FCValues(c, u, cur_domain(d, u), a, d, pr)
                 IN FCCons(cs, Tail(rel), a, r.dom, r.prunings)
            ELSE FCCons(cs, Tail(rel), a, d, pr)

\* Lines 33-36.
FCRelevant(cs, last) ==
    IF last = None THEN get_all_cons(cs) ELSE get_cons_with_var(cs, last)

\* Variant of FCSuccess: failure only when every domain is empty.
FCSuccessAll(d) == ~\A i \in 1..Len(get_all_vars) : cur_domain_size(d, get_all_vars[i]) = 0

\* Lines 49-53: the flag returned.
FCSuccess(d) == ~\E i \in 1..Len(get_all_vars) : cur_domain_size(d, get_all_vars[i]) = 0

\* Variant of prop_FC: a variable left with a single value is marked assigned.
prop_FC_assigning(cs, a, d, last) ==
    LET r == FCCons(cs, FCRelevant(cs, last), a, d, <<>>)
    IN [ok |-> FCSuccess(r.dom), dom |-> r.dom,
        asg |-> [x \in Vars |-> IF ~is_assigned(a, x) /\ cur_domain_size(r.dom, x) = 1
                                   /\ r.dom[x] # d[x]
                                THEN CHOOSE v \in r.dom[x] : TRUE ELSE a[x]],
        prunings |-> r.prunings]

prop_FC(cs, a, d, last) ==
    LET r == FCCons(cs, FCRelevant(cs, last), a, d, <<>>)
    IN [ok |-> FCSuccess(r.dom), dom |-> r.dom, asg |-> a, prunings |-> r.prunings]

\* ----------------------------------------------------------------- prop_AC3
\* [value if v == var else other_val for v in constraint.get_scope()]
\* Variant of ACTuple: the two values change places.
ACTupleSwapped(c, x, value, other_val) ==
    [j \in 1..Len(c.scope) |-> IF c.scope[j] = x THEN other_val ELSE value]

ACTuple(c, x, value, other_val) ==
    [j \in 1..Len(c.scope) |-> IF c.scope[j] = x THEN value ELSE other_val]

is_value_consistent(c, x, value, d) ==
    \E i \in 1..Len(c.scope) :
        /\ c.scope[i] # x
        /\ \E other_val \in d[c.scope[i]] : check(c, ACTuple(c, x, value, other_val))

\* Variant of Related: nothing is appended after a pruning.
RelatedNone(cs, k, x) == <<>>

\* Lines 104-106: the constraints appended to the queue after a pruning of x.
Related(cs, k, x) == SelectSeq(get_cons_with_var(cs, x), LAMBDA rc : rc # k)

\* Variant of AC3Values: the pruning that empties a domain is not recorded.
RECURSIVE AC3ValuesUnloggedFail(_, _, _, _, _, _, _)
AC3ValuesUnloggedFail(cs, k, x, vals, q, d, pr) ==
    IF vals = <<>> THEN [fail |-> FALSE, queue |-> q, dom |-> d, prunings |-> pr]
    ELSE LET value == Head(vals)
         IN IF ~is_value_consistent(cs[k], x, value, d)
            THEN LET d2 == prune_value(d, x, value)
                 IN IF cur_domain_size(d2, x) = 0
                    THEN [fail |-> TRUE, queue |-> q, dom |-> d2, prunings |-> pr]
                    ELSE AC3ValuesUnloggedFail(cs, k, x, Tail(vals), q \o Related(cs, k, x),
                                               d2, Append(pr, <<x, value>>))
            ELSE AC3ValuesUnloggedFail(cs, k, x, Tail(vals), q, d, pr)

\* for value in var.cur_domain(): ... (lines 95-106); fail is the early return.
RECURSIVE AC3Values(_, _, _, _, _, _, _)
AC3Values(cs, k, x, vals, q, d, pr) ==
    IF vals = <<>> THEN [fail |-> FALSE, queue |-> q, dom |-> d, prunings |-> pr]
    ELSE LET value == Head(vals)
         IN IF ~is_value_consistent(cs[k], x, value, d)
            THEN LET d2 == prune_value(d, x, value)
                     pr2 == Append(pr, <<x, value>>)
                 IN IF cur_domain_size(d2, x) = 0
                    THEN [fail |-> TRUE, queue |-> q, dom |-> d2, prunings |-> pr2]
                    ELSE AC3Values(cs, k, x, Tail(vals), q \o Related(cs, k, x), d2, pr2)
            ELSE AC3Values(cs, k, x, Tail(vals), q, d, pr)

\* for var in constraint.get_scope(): ... (line 94)
RECURSIVE AC3Scope(_, _, _, _, _, _)
AC3Scope(cs, k, i, q, d, pr) ==
    IF i > Len(cs[k].scope)
    THEN [fail |-> FALSE, queue |-> q, dom |-> d, prunings |-> pr]
    ELSE LET x == cs[k].scope[i]
             r == AC3Values(cs, k, x, cur_domain(d, x), q, d, pr)
         IN IF r.fail THEN r ELSE AC3Scope(cs, k, i + 1, r.queue, r.dom, r.prunings)

\* while queue: constraint = queue.pop(0) ... (lines 92-107)
RECURSIVE AC3Loop(_, _, _, _)
AC3Loop(cs, q, d, pr) ==
    IF q = <<>> THEN [ok |-> TRUE, dom |-> d, prunings |-> pr]
    ELSE LET r == AC3Scope(cs, Head(q), 1, Tail(q), d, pr)
         IN IF r.fail
            THEN [ok |-> FALSE, dom |-> r.dom, prunings |-> r.prunings]
            ELSE AC3Loop(cs, r.queue, r.dom, r.prunings)

\* Lines 83-88.
AC3Queue(cs, last) ==
    IF last # None THEN get_cons_with_var(cs, last) ELSE get_all_cons(cs)

\* Variant of prop_AC3: the failure return hands back an empty list.
prop_AC3_drops_log(cs, a, d, last) ==
    LET r == AC3Loop(cs, AC3Queue(cs, last), d, <<>>)
    IN [ok |-> r.ok, dom |-> r.dom, asg |-> a,
        prunings |-> IF r.ok THEN r.prunings ELSE <<>>]

prop_AC3(cs, a, d, last) ==
    LET r == AC3Loop(cs, AC3Queue(cs, last), d, <<>>)
    IN [ok |-> r.ok, dom |-> r.dom, asg |-> a, prunings |-> r.prunings]

\* ------------------------------------------------------- one propagation call
Strategies == {"BT", "FC", "AC3"}

Propagate(strat, cs, a, d, last) ==
    CASE strat = "BT" -> prop_BT(cs, a, d, last)
      [] strat = "FC" -> prop_FC(cs, a, d, last)
      [] strat = "AC3" -> prop_AC3(cs, a, d, last)

\* The caller's undo: re-insert the pairs of a pruning list, in the order given.
RECURSIVE restore_values(_, _)
restore_values(d, pr) ==
    IF pr = <<>> THEN d
    ELSE restore_values(restore_value(d, Head(pr)[1], Head(pr)[2]), Tail(pr))

\* All orders of a list.
RECURSIVE Perms(_)
Perms(s) ==
    IF s = <<>> THEN {<<>>}
    ELSE UNION {{<<s[i]>> \o p : p \in Perms(SubSeq(s, 1, i - 1) \o SubSeq(s, i + 1, Len(s)))} : i \in 1..Len(s)}

RECURSIVE SeqsUpTo(_, _)
SeqsUpTo(S, n) ==
    IF n = 0 THEN {<<>>}
    ELSE SeqsUpTo(S, n - 1) \cup {Append(s, e) : s \in {t \in SeqsUpTo(S, n - 1) : Len(t) = n - 1}, e \in S}

NoCall == [strat |-> "none", last |-> None, ok |-> TRUE, prunings |-> <<>>,
           preDom |-> [x \in Vars |-> {}], preAsg |-> [x \in Vars |-> None]]

\* A registry as the model builder hands it over: constraints over registered
\* variables, any current domains, assigned values inside the current domain.
Init ==
    /\ cons \in SeqsUpTo(ConsUniverse, MaxCons)
    /\ dom \in [Vars -> SUBSET Val]
    /\ asg \in {a \in [Vars -> Val \cup {None}] : \A x \in Vars : a[x] # None => a[x] \in dom[x]}
    /\ pc = "ready"
    /\ call = NoCall
    /\ stack = <<>>

Call(strat, last) ==
    /\ pc = "ready"
    /\ IF last = None THEN TRUE ELSE is_assigned(asg, last)
    /\ LET r == Propagate(strat, cons, asg, dom, last)
       IN /\ dom' = r.dom
          /\ asg' = r.asg
          /\ call' = [strat |-> strat, last |-> last, ok |-> r.ok,
                      prunings |-> r.prunings, preDom |-> dom, preAsg |-> asg]
    /\ pc' = "returned"
    /\ UNCHANGED <<cons, stack>>

CallBT == \E last \in Vars \cup {None} : Call("BT", last)

CallFC == \E last \in Vars \cup {None} : Call("FC", last)

CallAC3 == \E last \in Vars \cup {None} : Call("AC3", last)

Restore ==
    /\ pc = "returned"
    /\ \E p \in Perms(call.prunings) : dom' = restore_values(dom, p)
    /\ pc' = "restored"
    /\ UNCHANGED <<cons, asg, call, stack>>

Next == CallBT \/ CallFC \/ CallAC3 \/ Restore

Spec == Init /\ [][Next]_vars

\* ------------------------------------------------------------ call-level claims
Returned(strat) == pc = "returned" /\ call.strat = strat

\* The tuple of a binary constraint c with value v at the position of x and w at
\* the other position, in scope order.
ScopeTuple(c, x, v, w) == IF c.scope[1] = x THEN <<v, w>> ELSE <<w, v>>

OtherVar(c, x) == IF c.scope[1] = x THEN c.scope[2] ELSE c.scope[1]

Supported(c, x, v, d) == \E w \in d[OtherVar(c, x)] : ScopeTuple(c, x, v, w) \in c.sat

ArcConsistent(cs, d) ==
    \A k \in 1..Len(cs) : \A i \in 1..2 :
        \A v \in d[cs[k].scope[i]] : Supported(cs[k], cs[k].scope[i], v, d)

\* C1: after prop_AC3 with last_assigned_var = None returns success, every value
\* left in the current domain of a scope variable of any constraint has a support
\* in the current domain of the constraint's other variable.
C1_ArcConsistentAfterAC3 ==
    (Returned("AC3") /\ call.last = None /\ call.ok) => ArcConsistent(cons, dom)

\* C1 witness: a successful global AC-3 call that pruned a variable because of a
\* pruning made by a later constraint of the list (the re-enqueue did the work).
C1_Witness ==
    /\ Returned("AC3") /\ call.last = None /\ call.ok
    /\ Len(cons) = 2
    /\ Len(call.prunings) >= 2
    /\ ~ArcConsistent(cons, call.preDom)
    /\ \E x \in Vars : /\ ~InScope(cons[2], x)
                       /\ dom[x] # call.preDom[x]
                       /\ \A v \in call.preDom[x] : Supported(cons[1], x, v, call.preDom)

\* The variable a forward-checking step works on: the only unassigned variable
\* of a constraint that has exactly one.
FCTarget(a, c, x) ==
    /\ get_num_unassigned_vars(a, c) = 1
    /\ get_unassigned_vars(a, c)[1] = x

\* The values the forward-checking rule rejects for x: those whose tuple, built
\* in scope order with the other variable's assigned value, is not satisfying.
FCRejected(cs, a, d, last, x) ==
    {v \in d[x] : \E i \in 1..Len(FCRelevant(cs, last)) :
        LET c == cs[FCRelevant(cs, last)[i]]
        IN /\ FCTarget(a, c, x)
           /\ ScopeTuple(c, x, v, get_assigned_value(a, OtherVar(c, x))) \notin c.sat}

\* C2: prop_FC removes from the one unassigned variable of a relevant constraint
\* exactly the values whose tuple in scope order is not a satisfying tuple,
\* wherever the variable sits in the scope and for tables that are not symmetric.
C2_FCPruningRule ==
    Returned("FC") =>
        \A x \in Vars :
            dom[x] = call.preDom[x] \ FCRejected(cons, call.preAsg, call.preDom, call.last, x)

\* C3: prop_AC3 returns success = False exactly when some registered variable
\* has an empty current domain at the return.
C3_AC3FlagIffEmpty ==
    Returned("AC3") => (call.ok = FALSE <=> \E x \in Vars : dom[x] = {})

\* C4: prop_FC returns success = False exactly when, after its pruning, some
\* variable of the CSP (pruned or not, relevant or not) has an empty domain.
C4_FCFlagIffEmpty ==
    Returned("FC") => (call.ok = FALSE <=> \E x \in Vars : dom[x] = {})

\* C4 witness: forward checking fails on a variable it did not prune and that no
\* relevant constraint mentions, while another variable keeps values.
C4_Witness ==
    /\ Returned("FC") /\ ~call.ok /\ call.last # None
    /\ \E x \in Vars : /\ dom[x] = {}
                       /\ call.preDom[x] = {}
                       /\ \A i \in 1..Len(FCRelevant(cons, call.last)) :
                              ~InScope(cons[FCRelevant(cons, call.last)[i]], x)
    /\ \E y \in Vars : dom[y] # {} /\ dom[y] # call.preDom[y]

\* A fully assigned constraint containing x whose assigned values, in scope
\* order, are not a satisfying tuple.
BTViolated(cs, a, x) ==
    \E k \in 1..Len(cs) :
        /\ InScope(cs[k], x)
        /\ \A i \in 1..2 : is_assigned(a, cs[k].scope[i])
        /\ <<a[cs[k].scope[1]], a[cs[k].scope[2]]>> \notin cs[k].sat

\* C5: prop_BT changes no domain and returns no prunings; it succeeds without a
\* last-assigned variable, and otherwise fails exactly when a fully assigned
\* constraint on that variable is violated.
C5_BTCheckOnly ==
    Returned("BT") =>
        /\ dom = call.preDom
        /\ call.prunings = <<>>
        /\ call.last = None => call.ok
        /\ call.last # None => (call.ok = FALSE <=> BTViolated(cons, asg, call.last))

\* C5 witness: prop_BT rejects an assignment whose reversed tuple would satisfy
\* the violated constraint, and accepts a call that has unassigned neighbours.
C5_Witness ==
    /\ Returned("BT") /\ call.last # None /\ ~call.ok
    /\ \E k \in 1..Len(cons) :
          /\ InScope(cons[k], call.last)
          /\ \A i \in 1..2 : is_assigned(asg, cons[k].scope[i])
          /\ <<asg[cons[k].scope[2]], asg[cons[k].scope[1]]>> \in cons[k].sat
          /\ <<asg[cons[k].scope[1]], asg[cons[k].scope[2]]>> \notin cons[k].sat

Removed(pre, post) == {p \in Vars \X Val : p[2] \in pre[p[1]] \ post[p[1]]}

NoDuplicates(s) == \A i, j \in 1..Len(s) : s[i] = s[j] => i = j

\* C6: during prop_FC and prop_AC3 no domain gains a value, and the returned
\* list holds exactly the removed (variable, value) pairs, each once.
C6_ExactPruningLog ==
    (Returned("FC") \/ Returned("AC3")) =>
        /\ \A x \in Vars : dom[x] \subseteq call.preDom[x]
        /\ NoDuplicates(call.prunings)
        /\ {call.prunings[i] : i \in 1..Len(call.prunings)} = Removed(call.preDom, dom)

\* C6 witness: AC-3 takes its early return after prunings on two variables.
C6_Witness ==
    /\ Returned("AC3") /\ ~call.ok
    /\ Len(call.prunings) >= 3
    /\ \E i, j \in 1..Len(call.prunings) : call.prunings[i][1] # call.prunings[j][1]

\* C7: re-inserting the returned pairs, in any order, gives back the domains the
\* call started from.
C7_RestoreGivesPreCallDomains == pc = "restored" => dom = call.preDom

\* C7 witness: a failed call with three or more prunings has been undone.
C7_Witness ==
    /\ pc = "restored" /\ ~call.ok
    /\ call.strat \in {"FC", "AC3"}
    /\ Len(call.prunings) >= 3
    /\ dom = call.preDom

\* C10: a propagation call leaves the set of assigned variables and their values
\* as they were.
C10_AssignmentsUnchanged == pc = "returned" => asg = call.preAsg

\* C10 witness: a call that pruned the domain of an assigned variable and left
\* an unassigned variable with a single value.
C10_Witness ==
    /\ pc = "returned"
    /\ \E x \in Vars : is_assigned(asg, x) /\ dom[x] # call.preDom[x]
    /\ \E y \in Vars : ~is_assigned(asg, y) /\ Cardinality(dom[y]) = 1 /\ dom[y] # call.preDom[y]

\* ------------------------------------------------------------- search driver
\* The driver's side of the undo-stack contract: a frame per choice point, with
\* the variable committed there, the prunings pushed since, and (for the checks
\* only) the domains found when the choice point was reached.
Frame(x, d, pr) == [var |-> x, snap |-> d, prunings |-> pr]

\* Committing x to v: the other values of x leave its current domain and are
\* pushed as the first prunings of the new frame.
CommitPrunings(d, x, v) ==
    LET others == SortedSeq(d[x] \ {v})
    IN [i \in 1..Len(others) |-> <<x, others[i]>>]

InitSearch ==
    /\ cons \in SeqsUpTo(ConsUniverse, MaxCons)
    /\ dom = [x \in Vars |-> Val]
    /\ asg = [x \in Vars |-> None]
    /\ pc = "start"
    /\ call = NoCall
    /\ stack = <<>>

\* Propagation before the search starts, with no last-assigned variable.
RootPropagate ==
    /\ pc = "start"
    /\ \E strat \in Strategies :
          LET r == Propagate(strat, cons, asg, dom, None)
          IN /\ dom' = r.dom
             /\ asg' = r.asg
             /\ pc' = IF r.ok THEN "choice" ELSE "unsat"
    /\ UNCHANGED <<cons, call, stack>>

\* A choice point commits an unassigned variable to a value of its domain.
Assign ==
    /\ pc = "choice"
    /\ \E x \in Vars : \E v \in dom[x] :
          /\ ~is_assigned(asg, x)
          /\ asg' = [asg EXCEPT ![x] = v]
          /\ dom' = [dom EXCEPT ![x] = {v}]
          /\ stack' = Append(stack, Frame(x, dom, CommitPrunings(dom, x, v)))
    /\ pc' = "assigned"
    /\ call' = NoCall
    /\ UNCHANGED cons

\* The propagation call after a commitment; its prunings are pushed.
SearchPropagate ==
    /\ pc = "assigned"
    /\ \E strat \in Strategies :
          LET top == stack[Len(stack)]
              r == Propagate(strat, cons, asg, dom, top.var)
          IN /\ dom' = r.dom
             /\ asg' = r.asg
             /\ stack' = [stack EXCEPT ![Len(stack)].prunings = @ \o r.prunings]
             /\ pc' = IF r.ok THEN "choice" ELSE "failed"
    /\ UNCHANGED <<cons, call>>

\* Backtracking: pop the frame, restore its prunings in some order, unassign.
Backtrack ==
    /\ pc \in {"choice", "failed"}
    /\ stack # <<>>
    /\ LET top == stack[Len(stack)]
       IN /\ \E p \in Perms(top.prunings) : dom' = restore_values(dom, p)
          /\ asg' = [asg EXCEPT ![top.var] = None]
          /\ call' = [NoCall EXCEPT !.strat = "undo", !.ok = (pc = "choice"),
                                     !.prunings = top.prunings, !.preDom = top.snap]
    /\ stack' = SubSeq(stack, 1, Len(stack) - 1)
    /\ pc' = "choice"
    /\ UNCHANGED cons

NextSearch == RootPropagate \/ Assign \/ SearchPropagate \/ Backtrack

SpecSearch == InitSearch /\ [][NextSearch]_vars

\* ---------------------------------------------------------------- search claims
\* The prunings of the frames i..Len(st), newest frame first.
RECURSIVE PushedSince(_, _)
PushedSince(st, i) ==
    IF i > Len(st) THEN <<>> ELSE PushedSince(st, i + 1) \o st[i].prunings

\* C8: whenever the driver is back at a choice point after undoing a branch, the
\* current domains are those found when the choice point was first reached; and
\* for every open choice point, undoing what was pushed since leads back to the
\* domains it was reached with.
C8_StackDiscipline ==
    /\ call.strat = "undo" => dom = call.preDom
    /\ \A i \in 1..Len(stack) :
          restore_values(dom, PushedSince(stack, i)) = stack[i].snap

\* C8 witness: a failed branch below another open choice point has been undone,
\* restoring prunings that a propagation call made on other variables.
C8_Witness ==
    /\ call.strat = "undo" /\ ~call.ok /\ pc = "choice"
    /\ Len(stack) >= 1
    /\ \E i, j \in 1..Len(call.prunings) : call.prunings[i][1] # call.prunings[j][1]
    /\ dom = call.preDom
    /\ \E x \in Vars : dom[x] # Val

\* C9: in every state the driver reaches, also at the return of a propagation
\* call, every current domain is inside the initial domain and every assigned
\* variable's value is in its current domain.
C9_AssignedValueInDomain ==
    \A x \in Vars :
        /\ dom[x] \subseteq Val
        /\ is_assigned(asg, x) => get_assigned_value(asg, x) \in dom[x]

\* ------------------------------------------------------------------ ord_mrv
get_all_unasgn_vars(a) == SelectSeq(get_all_vars, LAMBDA x : ~is_assigned(a, x))

\* min(var.cur_domain_size() for var in unasgn_vars) (line 156)
MinDomainSize(d, u) ==
    CHOOSE m \in {cur_domain_size(d, u[i]) : i \in 1..Len(u)} :
        \A i \in 1..Len(u) : m <= cur_domain_size(d, u[i])

\* Variant of FirstOfSize: the scan keeps the last variable of that size.
RECURSIVE LastOfSize(_, _, _)
LastOfSize(d, u, m) ==
    IF u = <<>> THEN None
    ELSE IF cur_domain_size(d, u[Len(u)]) = m THEN u[Len(u)]
         ELSE LastOfSize(d, SubSeq(u, 1, Len(u) - 1), m)

\* for var in unasgn_vars: if var.cur_domain_size() == min_domain_size: return var
\* (lines 157-162)
RECURSIVE FirstOfSize(_, _, _)
FirstOfSize(d, u, m) ==
    IF u = <<>> THEN None
    ELSE IF cur_domain_size(d, Head(u)) = m THEN Head(u)
         ELSE FirstOfSize(d, Tail(u), m)

ord_mrv(a, d) ==
    LET unasgn_vars == get_all_unasgn_vars(a)
    IN IF unasgn_vars = <<>> THEN None
       ELSE FirstOfSize(d, unasgn_vars, MinDomainSize(d, unasgn_vars))

InitMRV ==
    /\ cons = <<>>
    /\ dom \in [Vars -> SUBSET Val]
    /\ asg \in {a \in [Vars -> Val \cup {None}] : \A x \in Vars : a[x] # None => a[x] \in dom[x]}
    /\ pc = "ready"
    /\ call = NoCall
    /\ stack = <<>>

\* The driver asks the heuristic for a variable, as often as it likes.
SelectVariable ==
    /\ pc \in {"ready", "selected"}
    /\ call' = [strat |-> "MRV", last |-> ord_mrv(asg, dom), ok |-> TRUE,
                prunings |-> <<>>, preDom |-> dom, preAsg |-> asg]
    /\ pc' = "selected"
    /\ UNCHANGED <<cons, dom, asg, stack>>

\* The driver commits the selected variable to a value of its domain.
AssignSelected ==
    /\ pc = "selected"
    /\ call.last # None
    /\ \E v \in dom[call.last] : asg' = [asg EXCEPT ![call.last] = v]
    /\ pc' = "ready"
    /\ call' = NoCall
    /\ UNCHANGED <<cons, dom, stack>>

NextMRV == SelectVariable \/ AssignSelected

SpecMRV == InitMRV /\ [][NextMRV]_vars

Unassigned(a) == {x \in Vars : ~is_assigned(a, x)}

\* C11: ord_mrv returns None exactly when no variable is unassigned; otherwise
\* an unassigned variable of minimal current-domain size, the earliest such in
\* registry order; the call leaves domains and assignments as they are.
C11_MRVSelection ==
    pc = "selected" =>
        /\ dom = call.preDom /\ asg = call.preAsg
        /\ call.last = None <=> Unassigned(asg) = {}
        /\ call.last # None =>
              /\ call.last \in Unassigned(asg)
              /\ \A y \in Unassigned(asg) :
                    /\ Cardinality(dom[call.last]) <= Cardinality(dom[y])
                    /\ Cardinality(dom[y]) = Cardinality(dom[call.last]) => call.last <= y

\* C11 witness: two unassigned variables tie on the minimal size, an earlier
\* unassigned variable has a larger domain, and the first of the tie is chosen.
C11_Witness ==
    /\ pc = "selected" /\ call.last # None
    /\ \E y \in Unassigned(asg) : y > call.last /\ Cardinality(dom[y]) = Cardinality(dom[call.last])
    /\ \E z \in Unassigned(asg) : z < call.last /\ Cardinality(dom[z]) > Cardinality(dom[call.last])

\* ------------------------------------------------------- white-dot scenario
\* Two unassigned variables A (domain {1,2,3}) and B (domain {3}) under one
\* white-dot constraint with scope (A, B), on a board of dimension 3..MaxDim;
\* the registry's other variables have any domain and no constraint.
InitWhiteDot ==
    /\ \E dim \in 3..MaxDim : \E A \in Vars : \E B \in Vars \ {A} :
          /\ cons = <<[scope |-> <<A, B>>, sat |-> satisfying_tuples_white_dots(dim)]>>
          /\ dom \in {d \in [Vars -> SUBSET {1, 2, 3}] : d[A] = {1, 2, 3} /\ d[B] = {3}}
    /\ asg = [x \in Vars |-> None]
    /\ pc = "ready"
    /\ call = NoCall
    /\ stack = <<>>

NextWhiteDot == CallAC3 \/ Restore

SpecWhiteDot == InitWhiteDot /\ [][NextWhiteDot]_vars

\* C12: in the white-dot scenario prop_AC3 without a last-assigned variable
\* succeeds and leaves A with {2} and B with {3}.
C12_WhiteDotScenario ==
    Returned("AC3") =>
        /\ call.ok
        /\ dom[cons[1].scope[1]] = {2}
        /\ dom[cons[1].scope[2]] = {3}

\* C12 witness: the call returned having pruned 1 and 3 from A, on a board whose
\* table also holds the pair (4, 3).
C12_Witness ==
    /\ Returned("AC3") /\ call.last = None
    /\ <<4, 3>> \in cons[1].sat
    /\ call.preDom[cons[1].scope[1]] = {1, 2, 3}
    /\ call.prunings = <<<<cons[1].scope[1], 1>>, <<cons[1].scope[1], 3>>>>

\* ------------------------------------------------- prop_AC3, one iteration a step
\* The registry's own lists: csp.cons and the index from each variable to the
\* constraints whose scope contains it.
Registry(cs) ==
    [cons_list |-> get_all_cons(cs),
     vars_to_cons |-> [x \in Vars |-> get_cons_with_var(cs, x)]]

\* Which list object a name refers to: "own" is a list the call made for itself,
\* "all" is csp.cons, <<"index", x>> is the index's list for x.
\* 'constraints touching variable X' hands out a list of its own.
get_cons_with_var_ref(x) == "own"

\* Variant of AC3QueueRef: the worklist is the registry's own list.
AC3QueueRefShared(last) == IF last # None THEN <<"index", last>> ELSE "all"

\* Lines 83-88: the list object the name queue is bound to; list(...) makes a
\* new list.
AC3QueueRef(last) == IF last # None THEN get_cons_with_var_ref(last) ELSE "own"

\* The contents of that list when the loop starts.
AC3QueueStart(reg, last) ==
    IF last # None THEN reg.vars_to_cons[last] ELSE reg.cons_list

QueueOf(cl) ==
    IF cl.qref = "own" THEN cl.queue
    ELSE IF cl.qref = "all" THEN cl.reg.cons_list
    ELSE cl.reg.vars_to_cons[cl.qref[2]]

\* queue.pop(0) and queue.append(...) act on the list object queue refers to.
RegAfter(cl, q) ==
    IF cl.qref = "own" THEN cl.reg
    ELSE IF cl.qref = "all" THEN [cl.reg EXCEPT !.cons_list = q]
    ELSE [cl.reg EXCEPT !.vars_to_cons[cl.qref[2]] = q]

\* Variant of PopRest: the constraint is read from the front and left there.
PopRestKeep(q) == q

\* constraint = queue.pop(0) (line 93): what is left of the queue.
PopRest(q) == Tail(q)

\* Variant of Requeue: a pruning appends nothing to the queue.
RequeueNone(q, rel) == q

\* for related_constraint in ...: queue.append(related_constraint) (lines 104-106).
Requeue(q, rel) == q \o rel

HasDuplicates(q) == \E i, j \in 1..Len(q) : i # j /\ q[i] = q[j]

\* The activation record of prop_AC3: k is the constraint being processed, i
\* the position in its scope, vals the values of the for loop still to come.
\* iterDom and pruned are history: the domains before the last step and the
\* pair that step pruned.
IdleCall(reg) ==
    [strat |-> "none", last |-> None, ok |-> TRUE, prunings |-> <<>>,
     preDom |-> [x \in Vars |-> {}], preAsg |-> [x \in Vars |-> None],
     qref |-> "own", queue |-> <<>>, reg |-> reg,
     k |-> 0, i |-> 0, vals |-> <<>>,
     iterDom |-> [x \in Vars |-> {}], pruned |-> <<>>, dup |-> FALSE]

\* Any registry and domain state, with at most one variable assigned.
InitAC3Run ==
    /\ cons \in SeqsUpTo(ConsUniverse, MaxCons)
    /\ dom \in [Vars -> SUBSET Val]
    /\ asg \in {a \in [Vars -> Val \cup {None}] :
                  /\ \A x \in Vars : a[x] # None => a[x] \in dom[x]
                  /\ Cardinality({x \in Vars : a[x] # None}) <= 1}
    /\ pc = "ready"
    /\ call = IdleCall(Registry(cons))
    /\ stack = <<>>

\* Lines 83-90.
AC3Start ==
    /\ pc = "ready"
    /\ \E last \in Vars \cup {None} :
          /\ IF last = None THEN TRUE ELSE is_assigned(asg, last)
          /\ LET ref == AC3QueueRef(last)
             IN call' = [IdleCall(call.reg) EXCEPT
                            !.strat = "AC3", !.last = last,
                            !.preDom = dom, !.preAsg = asg, !.qref = ref,
                            !.queue = IF ref = "own" THEN AC3QueueStart(call.reg, last)
                                      ELSE <<>>,
                            !.iterDom = dom]
    /\ pc' = "while"
    /\ UNCHANGED <<cons, dom, asg, stack>>

\* while queue: constraint = queue.pop(0) (lines 92-93).
AC3Pop ==
    /\ pc = "while"
    /\ QueueOf(call) # <<>>
    /\ LET q == PopRest(QueueOf(call))
       IN call' = [call EXCEPT !.k = Head(QueueOf(call)), !.i = 1,
                               !.queue = IF call.qref = "own" THEN q ELSE <<>>,
                               !.reg = RegAfter(call, q),
                               !.iterDom = dom, !.pruned = <<>>]
    /\ pc' = "scope"
    /\ UNCHANGED <<cons, dom, asg, stack>>

\* for var in constraint.get_scope(): for value in var.cur_domain(): (lines 94-95);
\* after the last variable the while loop goes round.
AC3ForVar ==
    /\ pc = "scope"
    /\ IF call.i > Len(get_scope(cons[call.k]))
       THEN /\ pc' = "while"
            /\ call' = [call EXCEPT !.k = 0, !.i = 0, !.iterDom = dom, !.pruned = <<>>]
       ELSE /\ pc' = "values"
            /\ call' = [call EXCEPT !.vals = cur_domain(dom, get_scope(cons[call.k])[call.i]),
                                    !.iterDom = dom, !.pruned = <<>>]
    /\ UNCHANGED <<cons, dom, asg, stack>>

\* The body of the for loop over values (lines 96-106); when the values are
\* done the loop over the scope goes on.
AC3ForValue ==
    /\ pc = "values"
    /\ LET x == get_scope(cons[call.k])[call.i]
       IN IF call.vals = <<>>
          THEN /\ pc' = "scope"
               /\ call' = [call EXCEPT !.i = @ + 1, !.iterDom = dom, !.pruned = <<>>]
               /\ dom' = dom
          ELSE IF is_value_consistent(cons[call.k], x, Head(call.vals), dom)
          THEN /\ pc' = "values"
               /\ call' = [call EXCEPT !.vals = Tail(@), !.iterDom = dom, !.pruned = <<>>]
               /\ dom' = dom
          ELSE /\ dom' = prune_value(dom, x, Head(call.vals))
               /\ IF cur_domain_size(dom', x) = 0
                  THEN /\ pc' = "returned"
                       /\ call' = [call EXCEPT
                                      !.prunings = Append(@, <<x, Head(call.vals)>>),
                                      !.ok = FALSE, !.iterDom = dom,
                                      !.pruned = <<x, Head(call.vals)>>]
                  ELSE /\ pc' = "values"
                       /\ LET q == Requeue(QueueOf(call), Related(cons, call.k, x))
                          IN call' = [call EXCEPT
                                         !.prunings = Append(@, <<x, Head(call.vals)>>),
                                         !.vals = Tail(@),
                                         !.queue = IF call.qref = "own" THEN q ELSE <<>>,
                                         !.reg = RegAfter(call, q),
                                         !.iterDom = dom,
                                         !.pruned = <<x, Head(call.vals)>>,
                                         !.dup = @ \/ HasDuplicates(q)]
    /\ UNCHANGED <<cons, asg, stack>>

\* The queue is empty: return True, prunings (line 107).
AC3Finish ==
    /\ pc = "while"
    /\ QueueOf(call) = <<>>
    /\ pc' = "returned"
    /\ call' = [call EXCEPT !.iterDom = dom, !.pruned = <<>>]
    /\ UNCHANGED <<cons, dom, asg, stack>>

\* The caller undoes the prunings and is ready for its next call.
AC3Undo ==
    /\ pc = "returned"
    /\ dom' = restore_values(dom, call.prunings)
    /\ call' = IdleCall(call.reg)
    /\ pc' = "ready"
    /\ UNCHANGED <<cons, asg, stack>>

AC3Run == AC3Pop \/ AC3ForVar \/ AC3ForValue \/ AC3Finish

NextAC3Run == AC3Start \/ AC3Run \/ AC3Undo

\* prop_AC3 is sequential code: while it has a statement to run, it runs it.
SpecAC3Run == InitAC3Run /\ [][NextAC3Run]_vars /\ WF_vars(AC3Run)

AC3Running == pc \in {"while", "scope", "values"}

\* C13: every call of prop_AC3 returns: the worklist runs empty or a domain does.
C13_AC3Terminates == AC3Running ~> (pc = "returned")

\* C13 witness: a call returned after its worklist held a constraint twice.
C13_Witness ==
    /\ pc = "returned" /\ call.strat = "AC3"
    /\ call.dup
    /\ Len(call.prunings) >= 2

\* The full assignments drawn from the domains d that satisfy every constraint.
Solutions(cs, d) ==
    {s \in [Vars -> Val] :
        /\ \A x \in Vars : s[x] \in d[x]
        /\ \A k \in 1..Len(cs) : <<s[cs[k].scope[1]], s[cs[k].scope[2]]>> \in cs[k].sat}

\* C14: a pair AC-3 prunes has, when it is pruned, no support in the current
\* domain of the other scope variable of the constraint being processed; so
\* every full assignment drawn from the pre-call domains that satisfies all
\* constraints stays within the domains; and when every value has a support in
\* every constraint, AC-3 prunes nothing and returns success.
C14_AC3PrunesOnlyUnsupported ==
    call.strat = "AC3" =>
        /\ call.pruned # <<>> =>
              ~Supported(cons[call.k], call.pruned[1], call.pruned[2], call.iterDom)
        /\ \A s \in Solutions(cons, call.preDom) : \A x \in Vars : s[x] \in dom[x]
        /\ (pc = "returned" /\ ArcConsistent(cons, call.preDom)) =>
              (call.ok /\ call.prunings = <<>> /\ dom = call.preDom)

\* C14 witness: a second pruning has just been made on a CSP that has a solution
\* within the pre-call domains.
C14_Witness ==
    /\ call.strat = "AC3" /\ pc = "values"
    /\ call.pruned # <<>>
    /\ Len(call.prunings) >= 2
    /\ Solutions(cons, call.preDom) # {}

\* The state the driver hands to a propagator: an assigned variable's current
\* domain is the singleton of its value.
AssignedAreSingletons(a, d) == \A x \in Vars : a[x] # None => d[x] = {a[x]}

\* C15: from the same state and the same last_assigned_var, when prop_FC and
\* prop_AC3 both succeed AC-3 leaves every current domain within the one FC
\* leaves, and when FC fails AC-3 fails.
C15_AC3AtLeastAsStrongAsFC ==
    (Returned("FC") /\ AssignedAreSingletons(call.preAsg, call.preDom)) =>
        LET ac3 == prop_AC3(cons, call.preAsg, call.preDom, call.last)
        IN /\ (call.ok /\ ac3.ok) => \A x \in Vars : ac3.dom[x] \subseteq dom[x]
           /\ ~call.ok => ~ac3.ok

\* ------------------------------------------------ AC-3 with a deduplicated worklist
DedupDim == 3
DedupCons == 3

\* Append to a worklist that never holds the same constraint twice.
AppendNew(q, rel) == q \o SelectSeq(rel, LAMBDA r : \A i \in 1..Len(q) : q[i] # r)

RECURSIVE AC3ValuesDedup(_, _, _, _, _, _, _)
AC3ValuesDedup(cs, k, x, vals, q, d, pr) ==
    IF vals = <<>> THEN [fail |-> FALSE, queue |-> q, dom |-> d, prunings |-> pr]
    ELSE LET value == Head(vals)
         IN IF ~is_value_consistent(cs[k], x, value, d)
            THEN LET d2 == prune_value(d, x, value)
                     pr2 == Append(pr, <<x, value>>)
                 IN IF cur_domain_size(d2, x) = 0
                    THEN [fail |-> TRUE, queue |-> q, dom |-> d2, prunings |-> pr2]
                    ELSE AC3ValuesDedup(cs, k, x, Tail(vals),
                                        AppendNew(q, Related(cs, k, x)), d2, pr2)
            ELSE AC3ValuesDedup(cs, k, x, Tail(vals), q, d, pr)

RECURSIVE AC3ScopeDedup(_, _, _, _, _, _)
AC3ScopeDedup(cs, k, i, q, d, pr) ==
    IF i > Len(cs[k].scope)
    THEN [fail |-> FALSE, queue |-> q, dom |-> d, prunings |-> pr]
    ELSE LET x == cs[k].scope[i]
             r == AC3ValuesDedup(cs, k, x, cur_domain(d, x), q, d, pr)
         IN IF r.fail THEN r ELSE AC3ScopeDedup(cs, k, i + 1, r.queue, r.dom, r.prunings)

RECURSIVE AC3LoopDedup(_, _, _, _)
AC3LoopDedup(cs, q, d, pr) ==
    IF q = <<>> THEN [ok |-> TRUE, dom |-> d, prunings |-> pr]
    ELSE LET r == AC3ScopeDedup(cs, Head(q), 1, Tail(q), d, pr)
         IN IF r.fail
            THEN [ok |-> FALSE, dom |-> r.dom, prunings |-> r.prunings]
            ELSE AC3LoopDedup(cs, r.queue, r.dom, r.prunings)

\* prop_AC3 as an implementer with a deduplicated FIFO worklist would write it.
prop_AC3_dedup(cs, a, d, last) ==
    LET r == AC3LoopDedup(cs, AC3Queue(cs, last), d, <<>>)
    IN [ok |-> r.ok, dom |-> r.dom, asg |-> a, prunings |-> r.prunings]

\* The dot and difference constraints between cells of a DedupDim board.
DedupUniverse ==
    {c \in [scope : Vars \X Vars,
            sat : {satisfying_tuples_difference_constraints(DedupDim),
                   satisfying_tuples_white_dots(DedupDim),
                   satisfying_tuples_black_dots(DedupDim)}] : c.scope[1] < c.scope[2]}

\* Any registry of DedupCons such constraints over different pairs of cells, any
\* non-empty domains, at most one variable assigned, its domain the singleton of
\* its value.
InitDedup ==
    /\ cons \in {cs \in SeqsUpTo(DedupUniverse, DedupCons) :
                   /\ Len(cs) = DedupCons
                   /\ \A i, j \in 1..Len(cs) : cs[i].scope = cs[j].scope => i = j}
    /\ dom \in [Vars -> (SUBSET (1..DedupDim)) \ {{}}]
    /\ asg \in {a \in [Vars -> (1..DedupDim) \cup {None}] :
                  /\ \A x \in Vars : a[x] # None => dom[x] = {a[x]}
                  /\ Cardinality({x \in Vars : a[x] # None}) <= 1}
    /\ pc = "ready"
    /\ call = IdleCall(Registry(cons))
    /\ stack = <<>>

SpecDedup == InitDedup /\ [][NextAC3Run]_vars

Records(pr) == {pr[i] : i \in 1..Len(pr)}

\* C16 as stated: the source's worklist and a deduplicated FIFO worklist give the
\* same success flag, the same final current domains and the same set of
\* pruning records.
C16_DedupUnobservable ==
    Returned("AC3") =>
        LET dd == prop_AC3_dedup(cons, call.preAsg, call.preDom, call.last)
        IN /\ dd.ok = call.ok
           /\ dd.dom = dom
           /\ Records(dd.prunings) = Records(call.prunings)

\* C16 amended: the same success flag, and on success the same final current
\* domains and the same set of pruning records.
C16_DedupUnobservableOnSuccess ==
    Returned("AC3") =>
        LET dd == prop_AC3_dedup(cons, call.preAsg, call.preDom, call.last)
        IN /\ dd.ok = call.ok
           /\ call.ok => /\ dd.dom = dom
                         /\ Records(dd.prunings) = Records(call.prunings)

\* C16 witness: a call succeeded after its worklist held a constraint twice and
\* it pruned three values or more.
C16_Witness ==
    /\ Returned("AC3") /\ call.ok
    /\ call.dup
    /\ Len(call.prunings) >= 3

Cells(dim) == (0..(dim - 1)) \X (0..(dim - 1))

RECURSIVE Concat(_)
Concat(ss) == IF ss = <<>> THEN <<>> ELSE Head(ss) \o Concat(Tail(ss))

\* range(lo, hi, step) as a sequence.
Range(lo, hi, step) == SortedSeq({k \in lo..(hi - 1) : (k - lo) % step = 0})

\* Constraint(name, scope) followed by add_satisfying_tuples(sat_tuples).
Constraint(scope, sat_tuples) == [scope |-> scope, sat |-> sat_tuples]

\* Lines 70-82.
create_initial_domain(dim) == 1..dim

\* Lines 37-43: the domain of each cell's variable.
InitialDomains(board) ==
    [cell \in Cells(board.dimension) |->
        IF board.cells[cell] # 0 THEN {board.cells[cell]}
        ELSE create_initial_domain(board.dimension)]

\* Lines 161-196: for row, for i, for j in range(i + 1, dim), then the columns.
create_row_and_col_constraints(dim, sat_tuples) ==
    LET Line(cell) ==
            Concat([i \in 1..dim |->
                      [n \in 1..(dim - i) |->
                          Constraint(<<cell[i - 1], cell[i - 1 + n]>>, sat_tuples)]])
        Row(row) == Line([k \in 0..(dim - 1) |-> <<row, k>>])
        Col(col) == Line([k \in 0..(dim - 1) |-> <<k, col>>])
    IN Concat([r \in 1..dim |-> Row(r - 1)]) \o Concat([c \in 1..dim |-> Col(c - 1)])

\* Line 217.
row_cage_size == 3

\* Variant of col_cage_size: three columns whatever the dimension.
col_cage_size_three(dim) == 3

\* Line 218.
col_cage_size(dim) == IF dim = 6 THEN 2 ELSE 3

\* Lines 220-221: the top-left cells of the cages, in the order of the loops.
CageBlocks(dim) ==
    LET rows == Range(0, dim, row_cage_size)
        cols == Range(0, dim, col_cage_size(dim))
    IN Concat([r \in 1..Len(rows) |-> [c \in 1..Len(cols) |-> <<rows[r], cols[c]>>]])

\* Lines 222-224: the cells of a cage, row by row.
cage_vars(dim, block) ==
    Concat([i \in 1..row_cage_size |->
              [j \in 1..col_cage_size(dim) |-> <<block[1] + i - 1, block[2] + j - 1>>]])

\* variables[...][...] with an index past the grid raises IndexError.
CageIndexError(dim) ==
    \E b \in 1..Len(CageBlocks(dim)) :
        \E n \in 1..(row_cage_size * col_cage_size(dim)) :
            cage_vars(dim, CageBlocks(dim)[b])[n] \notin Cells(dim)

\* Lines 199-231.
create_cage_constraints(dim, sat_tuples) ==
    LET blocks == CageBlocks(dim)
        Cage(cv) ==
            Concat([i \in 1..Len(cv) |->
                      [n \in 1..(Len(cv) - i) |-> Constraint(<<cv[i], cv[i + n]>>, sat_tuples)]])
    IN Concat([b \in 1..Len(blocks) |-> Cage(cage_vars(dim, blocks[b]))])

CHAR_BLACK == "*"
CHAR_WHITE == "o"

\* Lines 234-274.
create_dot_constraints(dots, white_tuples, black_tuples) ==
    [n \in 1..Len(dots) |->
        Constraint(<<<<dots[n].cell_row, dots[n].cell_col>>,
                     <<dots[n].cell2_row, dots[n].cell2_col>>>>,
                   IF dots[n].color = CHAR_BLACK THEN black_tuples ELSE white_tuples)]

\* The boards tried: any dimension, the first two cells of the diagonal given or
\* empty, up to two dots around the first cell.
KropkiGivens(dim) ==
    {[cell \in Cells(dim) |-> IF cell = <<0, 0>> THEN g0
                              ELSE IF cell = <<1, 1>> THEN g1 ELSE 0] :
        g0 \in {0, 1, dim}, g1 \in {0, 2}}

Dot(r, c, r2, c2, color) ==
    [cell_row |-> r, cell_col |-> c, cell2_row |-> r2, cell2_col |-> c2, color |-> color]

KropkiDots ==
    LET right == {Dot(0, 0, 0, 1, color) : color \in {CHAR_BLACK, CHAR_WHITE}}
        below == {Dot(0, 0, 1, 0, color) : color \in {CHAR_BLACK, CHAR_WHITE}}
    IN {<<>>} \cup {<<d>> : d \in right \cup below}
              \cup {<<d, e>> : d \in right, e \in below}

InitKropki ==
    /\ \E dim \in 2..MaxDim : \E cells \in KropkiGivens(dim) : \E dots \in KropkiDots :
          call = [strat |-> "kropki_model",
                  board |-> [dimension |-> dim, cells |-> cells, dots |-> dots],
                  diff_tuples |-> {}, white_dot_tuples |-> {}, black_dot_tuples |-> {}]
    /\ cons = <<>>
    /\ dom = <<>>
    /\ asg = <<>>
    /\ pc = "start"
    /\ stack = <<>>

\* Lines 33-47: the variables and their domains.
KM_Variables ==
    /\ pc = "start"
    /\ dom' = InitialDomains(call.board)
    /\ asg' = [cell \in Cells(call.board.dimension) |-> None]
    /\ pc' = "variables"
    /\ UNCHANGED <<cons, call, stack>>

\* Lines 49-51.
KM_Tables ==
    /\ pc = "variables"
    /\ call' = [call EXCEPT
                   !.diff_tuples = satisfying_tuples_difference_constraints(call.board.dimension),
                   !.white_dot_tuples = satisfying_tuples_white_dots(call.board.dimension),
                   !.black_dot_tuples = satisfying_tuples_black_dots(call.board.dimension)]
    /\ pc' = "tables"
    /\ UNCHANGED <<cons, dom, asg, stack>>

\* Lines 54-56.
KM_RowCol ==
    /\ pc = "tables"
    /\ cons' = cons \o create_row_and_col_constraints(call.board.dimension, call.diff_tuples)
    /\ pc' = "rows_cols"
    /\ UNCHANGED <<dom, asg, call, stack>>

\* Lines 59-61; an index past the grid ends kropki_model with IndexError.
KM_Cages ==
    /\ pc = "rows_cols"
    /\ IF CageIndexError(call.board.dimension)
       THEN /\ pc' = "IndexError"
            /\ cons' = cons
       ELSE /\ pc' = "cages"
            /\ cons' = cons \o create_cage_constraints(call.board.dimension, call.diff_tuples)
    /\ UNCHANGED <<dom, asg, call, stack>>

\* Lines 63-67.
KM_Dots ==
    /\ pc = "cages"
    /\ cons' = cons \o create_dot_constraints(call.board.dots, call.white_dot_tuples,
                                              call.black_dot_tuples)
    /\ pc' = "built"
    /\ UNCHANGED <<dom, asg, call, stack>>

NextKropki == KM_Variables \/ KM_Tables \/ KM_RowCol \/ KM_Cages \/ KM_Dots

SpecKropki == InitKropki /\ [][NextKropki]_vars

\* The cages kropki_model uses, each as the set of its cells.
Cages(dim) ==
    LET blocks == CageBlocks(dim)
    IN {{cage_vars(dim, blocks[b])[n] : n \in 1..(row_cage_size * col_cage_size(dim))} :
           b \in 1..Len(blocks)}

\* The numbers of rows and of columns a set of cells spans.
Sides(cage) ==
    {Cardinality({cell[1] : cell \in cage}), Cardinality({cell[2] : cell \in cage})}

Symmetric(table) == \A t \in table : <<t[2], t[1]>> \in table

\* C19: for every dimension from 2 up the difference table is the pairs of
\* different values of 1..dim, the white-dot table the pairs that differ by one,
\* the black-dot table the pairs where one value is twice the other; each table
\* is non-empty, holds only tuples of length 2 and is symmetric.
C19_TablesMatchRelations ==
    pc \in {"tables", "rows_cols", "cages", "built", "IndexError"} =>
        LET dim == call.board.dimension
            pairs == (1..dim) \X (1..dim)
        IN /\ call.diff_tuples = {t \in pairs : t[1] # t[2]}
           /\ call.white_dot_tuples =
                 {t \in pairs : t[1] - t[2] = 1 \/ t[2] - t[1] = 1}
           /\ call.black_dot_tuples =
                 {t \in pairs : t[1] = 2 * t[2] \/ t[2] = 2 * t[1]}
           /\ \A table \in {call.diff_tuples, call.white_dot_tuples, call.black_dot_tuples} :
                 /\ table # {}
                 /\ \A t \in table : Len(t) = 2
                 /\ Symmetric(table)

\* C19 witness: the tables of an odd dimension have been built.
C19_Witness ==
    /\ pc = "tables" /\ call.board.dimension = 5
    /\ Cardinality(call.diff_tuples) = 20
    /\ Cardinality(call.white_dot_tuples) = 8
    /\ Cardinality(call.black_dot_tuples) = 4

====
